---- MODULE Spec2Model ----
(***************************************************************************)
(* A model of the brown-rabbit infrastructure definitions:                 *)
(*   - the manifest graph that MainStack and KarpenterStack build with     *)
(*     cluster.addManifest / node.addDependency, and its application to    *)
(*     the cluster in dependency order;                                    *)
(*   - the statements of KarpenterControllerPolicy;                        *)
(*   - the rendering of the node-group user-data template;                 *)
(*   - the run of the node-group user-data script on a node.               *)
(***************************************************************************)
EXTENDS Naturals, Sequences, FiniteSets, TLC

VARIABLES
    clusterName,   \* cluster.clusterName, the configuration input
    pc,            \* number of constructor steps already executed
    built,         \* construct ids in the order the constructors created them
    dependsOn,     \* construct id -> ids recorded by node.addDependency
    status,        \* construct id -> "pending" | "ok" | "failed" (the applier)
    platform,      \* objects on the cluster: identity -> body
    calls,         \* the calls of the policy constructor: props and statements
    vars_in,       \* the vars mapping given to the user-data template
    rendered,      \* the result of rendering the user-data template
    tags,          \* taggable construct -> the tags added with cdk.Tags.of
    sh_next,       \* the user-data script: index of the next step to run
    sh_state,      \* the user-data script: "running" | "aborted" | "done"
    sh_log         \* the user-data script: the steps run, with their outcome

graphVars == <<clusterName, pc, built, dependsOn, status, platform, tags>>
policyVars == <<calls>>
templateVars == <<vars_in, rendered>>
scriptVars == <<sh_next, sh_state, sh_log>>
vars == <<clusterName, pc, built, dependsOn, status, platform, calls, vars_in, rendered,
          tags, sh_next, sh_state, sh_log>>

\* the elements of a sequence
Range(seq) == {seq[i] : i \in 1..Len(seq)}

(***************************************************************************)
(* Configuration inputs                                                    *)
(***************************************************************************)

\* cluster names the stacks are instantiated with; main-stack.ts uses
\* 'karpenter-demo', the specification's examples use "demo"
ClusterNames == {"demo", "karpenter-demo", "prod"}

(***************************************************************************)
(* The constructs and the constructor steps                                *)
(***************************************************************************)

KarpenterStackId == "KarpenterStack"

KarpenterManifestIds ==
    {"KarpenterNamespace", "KarpenterServiceAccount", "KarpenterController",
     "KarpenterInstallerRole", "KarpenterInstallerRoleBinding",
     "KarpenterInstallJob", "DefaultNodePool", "DefaultNodeClass"}

MainManifestIds ==
    {"ExampleWorkload", "GitHubRunnersNodePool", "GitHubRunnersNodeClass"}

ManifestIds == KarpenterManifestIds \cup MainManifestIds

ConstructIds == ManifestIds \cup {KarpenterStackId}

\* new ec2.Vpc(this, 'EksVpc', {maxAzs: 3, ...}): a public and a private
\* subnet in each of three zones
PrivateSubnets == {"PrivateSubnet1", "PrivateSubnet2", "PrivateSubnet3"}
PublicSubnets == {"PublicSubnet1", "PublicSubnet2", "PublicSubnet3"}

\* new ec2.SecurityGroup(this, 'KarpenterNodeSecurityGroup', ...)
KarpenterNodeSecurityGroup == "KarpenterNodeSecurityGroup"

Taggables == PrivateSubnets \cup PublicSubnets \cup {KarpenterNodeSecurityGroup}
NoTags == [t \in Taggables |-> {}]

NewStack(id) == [op |-> "new", id |-> id, on |-> id]
AddManifest(id) == [op |-> "manifest", id |-> id, on |-> id]
AddDependency(id, dep) == [op |-> "dependency", id |-> id, on |-> dep]

\* KarpenterStack's constructor with the config map made to depend on the
\* installer job (the wrong variable in the second addDependency)
KarpenterStackSteps_Cyclic ==
    << AddManifest("KarpenterNamespace"),
       AddManifest("KarpenterServiceAccount"),
       AddManifest("KarpenterController"),
       AddManifest("KarpenterInstallerRole"),
       AddManifest("KarpenterInstallerRoleBinding"),
       AddManifest("KarpenterInstallJob"),
       AddDependency("KarpenterServiceAccount", "KarpenterNamespace"),
       AddDependency("KarpenterController", "KarpenterInstallJob"),
       AddDependency("KarpenterInstallJob", "KarpenterController"),
       AddManifest("DefaultNodePool"),
       AddManifest("DefaultNodeClass"),
       AddDependency("DefaultNodePool", "KarpenterInstallJob"),
       AddDependency("DefaultNodeClass", "KarpenterInstallJob") >>

\* KarpenterStack's constructor with the installer job made to depend on
\* the service account instead of the config map
KarpenterStackSteps_JobOnServiceAccount ==
    << AddManifest("KarpenterNamespace"),
       AddManifest("KarpenterServiceAccount"),
       AddManifest("KarpenterController"),
       AddManifest("KarpenterInstallerRole"),
       AddManifest("KarpenterInstallerRoleBinding"),
       AddManifest("KarpenterInstallJob"),
       AddDependency("KarpenterServiceAccount", "KarpenterNamespace"),
       AddDependency("KarpenterController", "KarpenterServiceAccount"),
       AddDependency("KarpenterInstallJob", "KarpenterServiceAccount"),
       AddManifest("DefaultNodePool"),
       AddManifest("DefaultNodeClass"),
       AddDependency("DefaultNodePool", "KarpenterInstallJob"),
       AddDependency("DefaultNodeClass", "KarpenterInstallJob") >>

\* the body of KarpenterStack's constructor, in statement order
KarpenterStackSteps ==
    << AddManifest("KarpenterNamespace"),
       AddManifest("KarpenterServiceAccount"),
       AddManifest("KarpenterController"),
       AddManifest("KarpenterInstallerRole"),
       AddManifest("KarpenterInstallerRoleBinding"),
       AddManifest("KarpenterInstallJob"),
       AddDependency("KarpenterServiceAccount", "KarpenterNamespace"),
       AddDependency("KarpenterController", "KarpenterServiceAccount"),
       AddDependency("KarpenterInstallJob", "KarpenterController"),
       AddManifest("DefaultNodePool"),
       AddManifest("DefaultNodeClass"),
       AddDependency("DefaultNodePool", "KarpenterInstallJob"),
       AddDependency("DefaultNodeClass", "KarpenterInstallJob") >>

\* a constructor that makes the example workload depend on itself
MainStackSteps_SelfDependency ==
    << AddManifest("ExampleWorkload"),
       AddManifest("GitHubRunnersNodePool"),
       AddManifest("GitHubRunnersNodeClass"),
       AddDependency("ExampleWorkload", "ExampleWorkload"),
       AddDependency("GitHubRunnersNodePool", KarpenterStackId),
       AddDependency("GitHubRunnersNodeClass", KarpenterStackId) >>

\* the manifest part of MainStack's constructor, in statement order
MainStackSteps ==
    << AddManifest("ExampleWorkload"),
       AddManifest("GitHubRunnersNodePool"),
       AddManifest("GitHubRunnersNodeClass"),
       AddDependency("ExampleWorkload", KarpenterStackId),
       AddDependency("GitHubRunnersNodePool", KarpenterStackId),
       AddDependency("GitHubRunnersNodeClass", KarpenterStackId) >>

\* new KarpenterControllerPolicy(this, 'KarpenterControllerPolicy', {...})
NewPolicy(id) == [op |-> "policy", id |-> id, on |-> id]

\* cdk.Tags.of(target).add(key, cluster.clusterName), for each target
AddTags(targets, key) == [op |-> "tags", id |-> key, on |-> targets]

\* KarpenterStack's constructor creates its policy before its manifests
KarpenterStackResourceSteps == << NewPolicy("KarpenterControllerPolicy") >>

\* a constructor that tags every subnet of the VPC
KarpenterStackTagSteps_AllSubnets ==
    << AddTags(PrivateSubnets \cup PublicSubnets, "karpenter.sh/discovery") >>

\* vpc.privateSubnets.forEach(subnet => cdk.Tags.of(subnet).add(...))
KarpenterStackTagSteps ==
    << AddTags(PrivateSubnets, "karpenter.sh/discovery") >>

\* cdk.Tags.of(karpenterNodeSecurityGroup).add(...)
MainStackTagSteps ==
    << AddTags({KarpenterNodeSecurityGroup}, "karpenter.sh/discovery") >>

\* the steps of KarpenterStack's constructor
KarpenterStackConstructor ==
    <<NewStack(KarpenterStackId)>> \o KarpenterStackResourceSteps
        \o KarpenterStackSteps \o KarpenterStackTagSteps

\* MainStack's constructor runs KarpenterStack's constructor (new
\* KarpenterStack) before it tags its security group and adds its own
\* manifests
Program == KarpenterStackConstructor \o MainStackTagSteps \o MainStackSteps

\* new KarpenterStack(...) has returned
KarpenterStackDone == pc >= Len(KarpenterStackConstructor)

Synthesized == pc = Len(Program)

(***************************************************************************)
(* The manifests                                                           *)
(***************************************************************************)

\* a string of the output is a sequence of chunks: literal text (with the
\* inputs substituted) and references the platform resolves at deployment
Lit(text) == [lit |-> text]
Ref(name) == [ref |-> name]

\* CloudFormation pseudo parameters (cdk.Aws.*)
AwsPartition == Ref("AWS::Partition")
AwsRegion == Ref("AWS::Region")
AwsAccountId == Ref("AWS::AccountId")
AwsRefs == {AwsPartition, AwsRegion, AwsAccountId}

\* names and ARNs of the resources KarpenterStack creates for cluster cn
NodeRoleName(cn) == "KarpenterNodeInstanceRole-" \o cn
ControllerRoleName(cn) == "KarpenterControllerRole-" \o cn
QueueName(cn) == "Karpenter-" \o cn
RoleArn(name) ==
    <<Lit("arn:"), AwsPartition, Lit(":iam::"), AwsAccountId, Lit(":role/" \o name)>>
QueueArn(name) ==
    <<Lit("arn:"), AwsPartition, Lit(":sqs:"), AwsRegion, Lit(":"), AwsAccountId,
      Lit(":" \o name)>>
ClusterEndpoint(cn) == Ref(cn \o ".Endpoint")

\* the github-runners NodePool given the name of the default NodePool
GitHubRunnersNodePoolName_Default == "default"

\* metadata.name of the GitHubRunnersNodePool manifest
GitHubRunnersNodePoolName == "github-runners"

\* the object literal each cluster.addManifest call is given
Manifest(id, cn) ==
    CASE id = "KarpenterNamespace" ->
           [apiVersion |-> "v1", kind |-> "Namespace",
            name |-> "karpenter", namespace |-> "",
            spec |-> [labels |-> "karpenter"]]
      [] id = "KarpenterServiceAccount" ->
           [apiVersion |-> "v1", kind |-> "ServiceAccount",
            name |-> "karpenter", namespace |-> "karpenter",
            spec |-> [roleArn |-> RoleArn(ControllerRoleName(cn))]]
      [] id = "KarpenterController" ->
           [apiVersion |-> "v1", kind |-> "ConfigMap",
            name |-> "karpenter-install-script", namespace |-> "karpenter",
            spec |-> [data |-> {"install.sh"}]]
      [] id = "KarpenterInstallerRole" ->
           [apiVersion |-> "rbac.authorization.k8s.io/v1", kind |-> "ClusterRole",
            name |-> "karpenter-installer", namespace |-> "",
            spec |-> [apiGroups |-> {"*"}, resources |-> {"*"}, verbs |-> {"*"}]]
      [] id = "KarpenterInstallerRoleBinding" ->
           [apiVersion |-> "rbac.authorization.k8s.io/v1", kind |-> "ClusterRoleBinding",
            name |-> "karpenter-installer", namespace |-> "",
            spec |-> [roleRef |-> "karpenter-installer",
                      subjectName |-> "karpenter", subjectNamespace |-> "karpenter"]]
      [] id = "KarpenterInstallJob" ->
           [apiVersion |-> "batch/v1", kind |-> "Job",
            name |-> "karpenter-installer", namespace |-> "karpenter",
            spec |-> [serviceAccountName |-> "karpenter",
                      configMap |-> "karpenter-install-script",
                      env |-> [AWS_DEFAULT_REGION |-> AwsRegion,
                               CLUSTER_NAME |-> cn,
                               CLUSTER_ENDPOINT |-> ClusterEndpoint(cn),
                               INTERRUPTION_QUEUE |-> QueueName(cn)]]]
      [] id = "DefaultNodePool" ->
           [apiVersion |-> "karpenter.sh/v1beta1", kind |-> "NodePool",
            name |-> "default", namespace |-> "karpenter",
            spec |-> [nodeClassRef |-> "default", nodeType |-> "karpenter"]]
      [] id = "DefaultNodeClass" ->
           [apiVersion |-> "karpenter.k8s.aws/v1beta1", kind |-> "EC2NodeClass",
            name |-> "default", namespace |-> "karpenter",
            spec |-> [amiFamily |-> "AL2",
                      subnetSelector |-> <<"karpenter.sh/discovery", cn>>,
                      securityGroupSelector |-> <<"karpenter.sh/discovery", cn>>,
                      userData |-> <<"#!/bin/bash", "/etc/eks/bootstrap.sh " \o cn>>,
                      role |-> NodeRoleName(cn)]]
      [] id = "ExampleWorkload" ->
           [apiVersion |-> "apps/v1", kind |-> "Deployment",
            name |-> "example-workload", namespace |-> "default",
            spec |-> [replicas |-> 0, nodeType |-> "karpenter"]]
      [] id = "GitHubRunnersNodePool" ->
           [apiVersion |-> "karpenter.sh/v1", kind |-> "NodePool",
            name |-> GitHubRunnersNodePoolName, namespace |-> "karpenter",
            spec |-> [nodeClassRef |-> "github-runners", nodeType |-> "github-runner"]]
      [] id = "GitHubRunnersNodeClass" ->
           [apiVersion |-> "karpenter.k8s.aws/v1", kind |-> "EC2NodeClass",
            name |-> "github-runners", namespace |-> "karpenter",
            spec |-> [amiFamily |-> "Bottlerocket",
                      subnetSelector |-> <<"karpenter.sh/discovery", cn>>,
                      securityGroupSelector |-> <<"karpenter.sh/discovery", cn>>,
                      userData |-> <<"[settings.kubernetes]", "cluster-name = " \o cn>>,
                      role |-> NodeRoleName(cn)]]

\* the identity under which the cluster stores an object
Identity(body) == <<body.kind, body.namespace, body.name>>

(***************************************************************************)
(* KarpenterControllerPolicy: the statements of the managed policy         *)
(***************************************************************************)

\* new iam.PolicyStatement({sid, effect: ALLOW, resources, actions, conditions})
Statement(sid, resources, actions, conditions) ==
    [sid |-> sid, effect |-> "Allow", resources |-> resources,
     actions |-> actions, conditions |-> conditions]

\* one key of one condition operator, with its value or values
Cond(op, key, values) == [op |-> op, key |-> key, values |-> values]

\* `arn:${cdk.Aws.PARTITION}:ec2:${cdk.Aws.REGION}<tail>`
Ec2Arn(tail) == <<Lit("arn:"), AwsPartition, Lit(":ec2:"), AwsRegion, Lit(tail)>>

\* `arn:${cdk.Aws.PARTITION}:iam::${cdk.Aws.ACCOUNT_ID}:instance-profile/*`
InstanceProfileArn ==
    <<Lit("arn:"), AwsPartition, Lit(":iam::"), AwsAccountId, Lit(":instance-profile/*")>>

Wildcard == <<Lit("*")>>

AllowScopedEC2InstanceAccessActions ==
    Statement("AllowScopedEC2InstanceAccessActions",
        << Ec2Arn("::image/*"), Ec2Arn("::snapshot/*"), Ec2Arn(":*:security-group/*"),
           Ec2Arn(":*:subnet/*"), Ec2Arn(":*:capacity-reservation/*") >>,
        {"ec2:RunInstances", "ec2:CreateFleet"},
        {})

AllowScopedEC2LaunchTemplateAccessActions(c) ==
    Statement("AllowScopedEC2LaunchTemplateAccessActions",
        << Ec2Arn(":*:launch-template/*") >>,
        {"ec2:RunInstances", "ec2:CreateFleet"},
        { Cond("StringEquals", "aws:ResourceTag/kubernetes.io/cluster/" \o c, {Lit("owned")}),
          Cond("StringLike", "aws:ResourceTag/karpenter.sh/nodepool", {Lit("*")}) })

AllowScopedEC2InstanceActionsWithTags(c) ==
    Statement("AllowScopedEC2InstanceActionsWithTags",
        << Ec2Arn(":*:fleet/*"), Ec2Arn(":*:instance/*"), Ec2Arn(":*:volume/*"),
           Ec2Arn(":*:network-interface/*"), Ec2Arn(":*:launch-template/*"),
           Ec2Arn(":*:spot-instances-request/*") >>,
        {"ec2:RunInstances", "ec2:CreateFleet", "ec2:CreateLaunchTemplate"},
        { Cond("StringEquals", "aws:RequestTag/kubernetes.io/cluster/" \o c, {Lit("owned")}),
          Cond("StringEquals", "aws:RequestTag/eks:eks-cluster-name", {Lit(c)}),
          Cond("StringLike", "aws:RequestTag/karpenter.sh/nodepool", {Lit("*")}) })

AllowScopedResourceCreationTagging(c) ==
    Statement("AllowScopedResourceCreationTagging",
        << Ec2Arn(":*:fleet/*"), Ec2Arn(":*:instance/*"), Ec2Arn(":*:volume/*"),
           Ec2Arn(":*:network-interface/*"), Ec2Arn(":*:launch-template/*"),
           Ec2Arn(":*:spot-instances-request/*") >>,
        {"ec2:CreateTags"},
        { Cond("StringEquals", "aws:RequestTag/kubernetes.io/cluster/" \o c, {Lit("owned")}),
          Cond("StringEquals", "aws:RequestTag/eks:eks-cluster-name", {Lit(c)}),
          Cond("StringEquals", "ec2:CreateAction",
               {Lit("RunInstances"), Lit("CreateFleet"), Lit("CreateLaunchTemplate")}),
          Cond("StringLike", "aws:RequestTag/karpenter.sh/nodepool", {Lit("*")}) })

AllowScopedResourceTagging(c) ==
    Statement("AllowScopedResourceTagging",
        << Ec2Arn(":*:instance/*") >>,
        {"ec2:CreateTags"},
        { Cond("StringEquals", "aws:ResourceTag/kubernetes.io/cluster/" \o c, {Lit("owned")}),
          Cond("StringLike", "aws:ResourceTag/karpenter.sh/nodepool", {Lit("*")}),
          Cond("StringEqualsIfExists", "aws:RequestTag/eks:eks-cluster-name", {Lit(c)}),
          Cond("ForAllValues:StringEquals", "aws:TagKeys",
               {Lit("eks:eks-cluster-name"), Lit("karpenter.sh/nodeclaim"), Lit("Name")}) })

\* a deletion statement scoped by the nodepool tag alone
AllowScopedDeletion_AnyCluster(c) ==
    Statement("AllowScopedDeletion",
        << Ec2Arn(":*:instance/*"), Ec2Arn(":*:launch-template/*") >>,
        {"ec2:TerminateInstances", "ec2:DeleteLaunchTemplate"},
        { Cond("StringLike", "aws:ResourceTag/karpenter.sh/nodepool", {Lit("*")}) })

AllowScopedDeletion(c) ==
    Statement("AllowScopedDeletion",
        << Ec2Arn(":*:instance/*"), Ec2Arn(":*:launch-template/*") >>,
        {"ec2:TerminateInstances", "ec2:DeleteLaunchTemplate"},
        { Cond("StringEquals", "aws:ResourceTag/kubernetes.io/cluster/" \o c, {Lit("owned")}),
          Cond("StringLike", "aws:ResourceTag/karpenter.sh/nodepool", {Lit("*")}) })

AllowRegionalReadActions ==
    Statement("AllowRegionalReadActions",
        << Wildcard >>,
        {"ec2:DescribeCapacityReservations", "ec2:DescribeImages", "ec2:DescribeInstances",
         "ec2:DescribeInstanceTypeOfferings", "ec2:DescribeInstanceTypes",
         "ec2:DescribeLaunchTemplates", "ec2:DescribeSecurityGroups",
         "ec2:DescribeSpotPriceHistory", "ec2:DescribeSubnets"},
        { Cond("StringEquals", "aws:RequestedRegion", {AwsRegion}) })

AllowSSMReadActions ==
    Statement("AllowSSMReadActions",
        << <<Lit("arn:"), AwsPartition, Lit(":ssm:"), AwsRegion,
             Lit("::parameter/aws/service/*")>> >>,
        {"ssm:GetParameter"},
        {})

AllowPricingReadActions ==
    Statement("AllowPricingReadActions", << Wildcard >>, {"pricing:GetProducts"}, {})

AllowInterruptionQueueActions(q) ==
    Statement("AllowInterruptionQueueActions",
        << q >>,
        {"sqs:DeleteMessage", "sqs:GetQueueUrl", "sqs:ReceiveMessage"},
        {})

AllowPassingInstanceRole(r) ==
    Statement("AllowPassingInstanceRole",
        << r >>,
        {"iam:PassRole"},
        { Cond("StringEquals", "iam:PassedToService",
               {Lit("ec2.amazonaws.com"), Lit("ec2.amazonaws.com.cn")}) })

\* the statement with its tag conditions left out for an empty cluster name
AllowScopedInstanceProfileCreationActions_Branching(c) ==
    Statement("AllowScopedInstanceProfileCreationActions",
        << InstanceProfileArn >>,
        {"iam:CreateInstanceProfile"},
        IF c = ""
        THEN { Cond("StringLike", "aws:RequestTag/karpenter.k8s.aws/ec2nodeclass", {Lit("*")}) }
        ELSE { Cond("StringEquals", "aws:RequestTag/kubernetes.io/cluster/" \o c, {Lit("owned")}),
               Cond("StringEquals", "aws:RequestTag/eks:eks-cluster-name", {Lit(c)}),
               Cond("StringEquals", "aws:RequestTag/topology.kubernetes.io/region", {AwsRegion}),
               Cond("StringLike", "aws:RequestTag/karpenter.k8s.aws/ec2nodeclass", {Lit("*")}) })

AllowScopedInstanceProfileCreationActions(c) ==
    Statement("AllowScopedInstanceProfileCreationActions",
        << InstanceProfileArn >>,
        {"iam:CreateInstanceProfile"},
        { Cond("StringEquals", "aws:RequestTag/kubernetes.io/cluster/" \o c, {Lit("owned")}),
          Cond("StringEquals", "aws:RequestTag/eks:eks-cluster-name", {Lit(c)}),
          Cond("StringEquals", "aws:RequestTag/topology.kubernetes.io/region", {AwsRegion}),
          Cond("StringLike", "aws:RequestTag/karpenter.k8s.aws/ec2nodeclass", {Lit("*")}) })

AllowScopedInstanceProfileTagActions(c) ==
    Statement("AllowScopedInstanceProfileTagActions",
        << InstanceProfileArn >>,
        {"iam:TagInstanceProfile"},
        { Cond("StringEquals", "aws:ResourceTag/kubernetes.io/cluster/" \o c, {Lit("owned")}),
          Cond("StringEquals", "aws:ResourceTag/topology.kubernetes.io/region", {AwsRegion}),
          Cond("StringEquals", "aws:RequestTag/kubernetes.io/cluster/" \o c, {Lit("owned")}),
          Cond("StringEquals", "aws:RequestTag/eks:eks-cluster-name", {Lit(c)}),
          Cond("StringEquals", "aws:RequestTag/topology.kubernetes.io/region", {AwsRegion}),
          Cond("StringLike", "aws:ResourceTag/karpenter.k8s.aws/ec2nodeclass", {Lit("*")}),
          Cond("StringLike", "aws:RequestTag/karpenter.k8s.aws/ec2nodeclass", {Lit("*")}) })

AllowScopedInstanceProfileActions(c) ==
    Statement("AllowScopedInstanceProfileActions",
        << InstanceProfileArn >>,
        {"iam:AddRoleToInstanceProfile", "iam:RemoveRoleFromInstanceProfile",
         "iam:DeleteInstanceProfile"},
        { Cond("StringEquals", "aws:ResourceTag/kubernetes.io/cluster/" \o c, {Lit("owned")}),
          Cond("StringEquals", "aws:ResourceTag/topology.kubernetes.io/region", {AwsRegion}),
          Cond("StringLike", "aws:ResourceTag/karpenter.k8s.aws/ec2nodeclass", {Lit("*")}) })

AllowInstanceProfileReadActions ==
    Statement("AllowInstanceProfileReadActions",
        << InstanceProfileArn >>, {"iam:GetInstanceProfile"}, {})

AllowAPIServerEndpointDiscovery(c) ==
    Statement("AllowAPIServerEndpointDiscovery",
        << <<Lit("arn:"), AwsPartition, Lit(":eks:"), AwsRegion, Lit(":"), AwsAccountId,
             Lit(":cluster/" \o c)>> >>,
        {"eks:DescribeCluster"},
        {})

\* the statements array with the queue ARN given to the pass-role statement
\* as well
PolicyStatements_QueueArnTwice(c, q, r) ==
    << AllowScopedEC2InstanceAccessActions,
       AllowScopedEC2LaunchTemplateAccessActions(c),
       AllowScopedEC2InstanceActionsWithTags(c),
       AllowScopedResourceCreationTagging(c),
       AllowScopedResourceTagging(c),
       AllowScopedDeletion(c),
       AllowRegionalReadActions,
       AllowSSMReadActions,
       AllowPricingReadActions,
       AllowInterruptionQueueActions(q),
       AllowPassingInstanceRole(q),
       AllowScopedInstanceProfileCreationActions(c),
       AllowScopedInstanceProfileTagActions(c),
       AllowScopedInstanceProfileActions(c),
       AllowInstanceProfileReadActions,
       AllowAPIServerEndpointDiscovery(c) >>

\* the statements array of the managed policy, for props (c, q, r)
PolicyStatements(c, q, r) ==
    << AllowScopedEC2InstanceAccessActions,
       AllowScopedEC2LaunchTemplateAccessActions(c),
       AllowScopedEC2InstanceActionsWithTags(c),
       AllowScopedResourceCreationTagging(c),
       AllowScopedResourceTagging(c),
       AllowScopedDeletion(c),
       AllowRegionalReadActions,
       AllowSSMReadActions,
       AllowPricingReadActions,
       AllowInterruptionQueueActions(q),
       AllowPassingInstanceRole(r),
       AllowScopedInstanceProfileCreationActions(c),
       AllowScopedInstanceProfileTagActions(c),
       AllowScopedInstanceProfileActions(c),
       AllowInstanceProfileReadActions,
       AllowAPIServerEndpointDiscovery(c) >>

\* a constructor that leaves the cluster ARN statement out when it has no
\* cluster name to put in it
buildControllerPolicy_SkipsEmpty(c, q, r) ==
    IF c = "" THEN SubSeq(PolicyStatements(c, q, r), 1, 15)
              ELSE PolicyStatements(c, q, r)

\* a constructor that rejects a queue ARN that is not an ARN
buildControllerPolicy_Validating(c, q, r) ==
    IF q = <<Lit("not-an-arn")>> THEN <<>> ELSE PolicyStatements(c, q, r)

\* KarpenterControllerPolicy's constructor: destructures the props and
\* builds the managed policy, with no check of the props
buildControllerPolicy(c, q, r) == PolicyStatements(c, q, r)

(***************************************************************************)
(* The node-group user-data template and its rendering                     *)
(***************************************************************************)

\* a line of a template is a sequence of segments: text, and ${NAME}
\* placeholders
Text(t) == [text |-> t]
Var(name) == [var |-> name]

\* node-group-userdata.sh, line by line
NodeGroupUserData ==
    <<
       << Text("#!/bin/bash") >>,
       << Text("") >>,
       << Text("# EKS Node Group User Data Script for Podman/Rootless Container Support") >>,
       << Text("# This script configures EKS nodes to support rootless container builds") >>,
       << Text("") >>,
       << Text("set -e") >>,
       << Text("") >>,
       << Text("# Enable user namespaces (required for rootless containers)") >>,
       << Text("echo \"Enabling user namespaces...\"") >>,
       << Text("echo 'user.max_user_namespaces = 65536' >> /etc/sysctl.conf") >>,
       << Text("echo 'user.max_pid_namespaces = 65536' >> /etc/sysctl.conf") >>,
       << Text("echo 'user.max_net_namespaces = 65536' >> /etc/sysctl.conf") >>,
       << Text("sysctl -p") >>,
       << Text("") >>,
       << Text("# Install fuse-overlayfs (required for rootless overlay storage)") >>,
       << Text("echo \"Installing fuse-overlayfs...\"") >>,
       << Text("yum update -y") >>,
       << Text("yum install -y fuse-overlayfs") >>,
       << Text("") >>,
       << Text("# Install crun (modern container runtime with better rootless support)") >>,
       << Text("echo \"Installing crun...\"") >>,
       << Text("CRUN_VERSION=\"1.8.7\"") >>,
       << Text("curl -L \"https://github.com/containers/crun/releases/download/"), Var("CRUN_VERSION"), Text("/crun-"), Var("CRUN_VERSION"), Text("-linux-amd64\" \\") >>,
       << Text("    -o /usr/local/bin/crun") >>,
       << Text("chmod +x /usr/local/bin/crun") >>,
       << Text("") >>,
       << Text("# Configure containerd to use crun") >>,
       << Text("echo \"Configuring containerd for crun...\"") >>,
       << Text("mkdir -p /etc/containerd/") >>,
       << Text("cat > /etc/containerd/config.toml << 'EOF'") >>,
       << Text("version = 2") >>,
       << Text("") >>,
       << Text("[plugins]") >>,
       << Text("  [plugins.\"io.containerd.grpc.v1.cri\"]") >>,
       << Text("    [plugins.\"io.containerd.grpc.v1.cri\".containerd]") >>,
       << Text("      [plugins.\"io.containerd.grpc.v1.cri\".containerd.runtimes]") >>,
       << Text("        [plugins.\"io.containerd.grpc.v1.cri\".containerd.runtimes.runc]") >>,
       << Text("          runtime_type = \"io.containerd.runc.v2\"") >>,
       << Text("          [plugins.\"io.containerd.grpc.v1.cri\".containerd.runtimes.runc.options]") >>,
       << Text("            BinaryName = \"/usr/local/bin/crun\"") >>,
       << Text("        [plugins.\"io.containerd.grpc.v1.cri\".containerd.runtimes.crun]") >>,
       << Text("          runtime_type = \"io.containerd.runc.v2\"") >>,
       << Text("          [plugins.\"io.containerd.grpc.v1.cri\".containerd.runtimes.crun.options]") >>,
       << Text("            BinaryName = \"/usr/local/bin/crun\"") >>,
       << Text("EOF") >>,
       << Text("") >>,
       << Text("# Set up subuid/subgid ranges for rootless containers") >>,
       << Text("echo \"Setting up subuid/subgid ranges...\"") >>,
       << Text("echo 'ec2-user:100000:65536' >> /etc/subuid") >>,
       << Text("echo 'ec2-user:100000:65536' >> /etc/subgid") >>,
       << Text("") >>,
       << Text("# Create systemd user directory for rootless services") >>,
       << Text("echo \"Setting up systemd user directories...\"") >>,
       << Text("mkdir -p /etc/systemd/user") >>,
       << Text("mkdir -p /var/lib/systemd/linger") >>,
       << Text("") >>,
       << Text("# Enable lingering for ec2-user (allows user services to run without login)") >>,
       << Text("loginctl enable-linger ec2-user || true") >>,
       << Text("") >>,
       << Text("# Install additional tools for container builds") >>,
       << Text("echo \"Installing build tools...\"") >>,
       << Text("yum install -y \\") >>,
       << Text("    git \\") >>,
       << Text("    tar \\") >>,
       << Text("    gzip \\") >>,
       << Text("    which \\") >>,
       << Text("    curl \\") >>,
       << Text("    wget") >>,
       << Text("") >>,
       << Text("# Configure kernel parameters for better container performance") >>,
       << Text("echo \"Configuring kernel parameters...\"") >>,
       << Text("cat >> /etc/sysctl.conf << 'EOF'") >>,
       << Text("# Container optimizations") >>,
       << Text("fs.inotify.max_user_watches = 524288") >>,
       << Text("fs.inotify.max_user_instances = 512") >>,
       << Text("kernel.keys.maxkeys = 2000") >>,
       << Text("kernel.keys.maxbytes = 2000000") >>,
       << Text("EOF") >>,
       << Text("sysctl -p") >>,
       << Text("") >>,
       << Text("# Set up storage optimization") >>,
       << Text("echo \"Optimizing storage for container builds...\"") >>,
       << Text("# Create dedicated partition for container storage if additional EBS volume is attached") >>,
       << Text("if [ -b /dev/nvme1n1 ]; then") >>,
       << Text("    mkfs.ext4 /dev/nvme1n1") >>,
       << Text("    mkdir -p /var/lib/containers") >>,
       << Text("    mount /dev/nvme1n1 /var/lib/containers") >>,
       << Text("    echo '/dev/nvme1n1 /var/lib/containers ext4 defaults,noatime 0 2' >> /etc/fstab") >>,
       << Text("    chmod 755 /var/lib/containers") >>,
       << Text("fi") >>,
       << Text("") >>,
       << Text("# Restart containerd to pick up new configuration") >>,
       << Text("systemctl restart containerd") >>,
       << Text("") >>,
       << Text("# Label the node for podman workloads") >>,
       << Text("echo \"Node setup complete for rootless container builds\"") >>,
       << Text("") >>,
       << Text("# Bootstrap EKS node (this must be last)") >>,
       << Text("/etc/eks/bootstrap.sh "), Var("CLUSTER_NAME"), Text(" \\") >>,
       << Text("    --container-runtime containerd \\") >>,
       << Text("    --kubelet-extra-args '--node-labels=node-type=builder,podman-enabled=true'") >>
    >>

\* the line of the template that invokes /etc/eks/bootstrap.sh
BootstrapLine ==
    CHOOSE n \in 1..Len(NodeGroupUserData) :
        NodeGroupUserData[n][1] = Text("/etc/eks/bootstrap.sh ")

IsVar(seg) == "var" \in DOMAIN seg

\* the placeholders a template references
Placeholders(template) ==
    UNION { {seg.var : seg \in {x \in Range(template[n]) : IsVar(x)}} :
              n \in 1..Len(template) }

RECURSIVE Concat(_, _)
\* the text of a line, each placeholder replaced by its value
Concat(line, values) ==
    IF line = <<>> THEN ""
    ELSE (IF IsVar(Head(line)) THEN values[Head(line).var] ELSE Head(line).text)
            \o Concat(Tail(line), values)

\* a renderer that writes the lines it has rendered before it meets the
\* placeholder that has no value
renderTemplate_PartialOutput(template, values) ==
    LET missing == Placeholders(template) \ DOMAIN values
        bad == {n \in 1..Len(template) :
                  \E seg \in Range(template[n]) : IsVar(seg) /\ seg.var \in missing}
        first == CHOOSE n \in bad : \A m \in bad : n <= m
    IN  IF missing # {}
        THEN [ok |-> FALSE, error |-> "MissingVariable",
              missing |-> missing,
              text |-> [n \in 1..(first - 1) |-> Concat(template[n], values)]]
        ELSE [ok |-> TRUE, error |-> "",
              missing |-> {},
              text |-> [n \in 1..Len(template) |-> Concat(template[n], values)]]

\* data "template_file": the template with each ${NAME} replaced by
\* vars[NAME]; the rendering fails when a placeholder has no value in vars
renderTemplate(template, values) ==
    LET missing == Placeholders(template) \ DOMAIN values
    IN  IF missing # {}
        THEN [ok |-> FALSE, error |-> "MissingVariable",
              missing |-> missing, text |-> <<>>]
        ELSE [ok |-> TRUE, error |-> "",
              missing |-> {},
              text |-> [n \in 1..Len(template) |-> Concat(template[n], values)]]

(***************************************************************************)
(* node-group-userdata.sh as the shell runs it                             *)
(***************************************************************************)

\* The steps of the script: the line of the step in the file, its command,
\* and what the shell does when the command returns non-zero.
\* a simple command
Command(line, cmd) == [line |-> line, cmd |-> cmd, kind |-> "command", block |-> 0]
\* cmd || true
OrTrue(line, cmd) == [line |-> line, cmd |-> cmd, kind |-> "or-true", block |-> 0]
\* NAME=value
Assign(line, cmd) == [line |-> line, cmd |-> cmd, kind |-> "assign", block |-> 0]
\* set -e
Option(line, cmd) == [line |-> line, cmd |-> cmd, kind |-> "option", block |-> 0]
\* if cmd; then <block steps> fi
If(line, cmd, block) == [line |-> line, cmd |-> cmd, kind |-> "if", block |-> block]

\* a script that does not set errexit
ScriptOptions_NoErrExit == << >>

\* set -e
ScriptOptions == << Option(304, "set -e") >>

SetupSteps ==
    << Command(307, "echo Enabling user namespaces"),
       Command(308, "echo user.max_user_namespaces >> /etc/sysctl.conf"),
       Command(309, "echo user.max_pid_namespaces >> /etc/sysctl.conf"),
       Command(310, "echo user.max_net_namespaces >> /etc/sysctl.conf"),
       Command(311, "sysctl -p"),
       Command(314, "echo Installing fuse-overlayfs"),
       Command(315, "yum update -y"),
       Command(316, "yum install -y fuse-overlayfs"),
       Command(319, "echo Installing crun"),
       Assign(320, "CRUN_VERSION=1.8.7"),
       Command(321, "curl -L crun -o /usr/local/bin/crun"),
       Command(323, "chmod +x /usr/local/bin/crun"),
       Command(326, "echo Configuring containerd for crun"),
       Command(327, "mkdir -p /etc/containerd/"),
       Command(328, "cat > /etc/containerd/config.toml"),
       Command(346, "echo Setting up subuid/subgid ranges"),
       Command(347, "echo ec2-user:100000:65536 >> /etc/subuid"),
       Command(348, "echo ec2-user:100000:65536 >> /etc/subgid"),
       Command(351, "echo Setting up systemd user directories"),
       Command(352, "mkdir -p /etc/systemd/user"),
       Command(353, "mkdir -p /var/lib/systemd/linger"),
       OrTrue(356, "loginctl enable-linger ec2-user"),
       Command(359, "echo Installing build tools"),
       Command(360, "yum install -y git tar gzip which curl wget"),
       Command(369, "echo Configuring kernel parameters"),
       Command(370, "cat >> /etc/sysctl.conf"),
       Command(377, "sysctl -p"),
       Command(380, "echo Optimizing storage for container builds"),
       If(382, "[ -b /dev/nvme1n1 ]", 5),
       Command(383, "mkfs.ext4 /dev/nvme1n1"),
       Command(384, "mkdir -p /var/lib/containers"),
       Command(385, "mount /dev/nvme1n1 /var/lib/containers"),
       Command(386, "echo /dev/nvme1n1 >> /etc/fstab"),
       Command(387, "chmod 755 /var/lib/containers"),
       Command(391, "systemctl restart containerd"),
       Command(394, "echo Node setup complete") >>

\* /etc/eks/bootstrap.sh ${CLUSTER_NAME} ..., the last lines of the file
BootstrapSteps == << Command(397, "/etc/eks/bootstrap.sh") >>

UserDataSteps == ScriptOptions \o SetupSteps \o BootstrapSteps

\* errexit is in force once set -e has run
ErrExit == \E i \in 1..Len(sh_log) : UserDataSteps[sh_log[i].step].cmd = "set -e"

\* the step after step i, or the end of the script
Advance(i) ==
    /\ sh_next' = i + 1
    /\ sh_state' = IF i = Len(UserDataSteps) THEN "done" ELSE "running"

\* a step returns zero
StepSucceeds ==
    /\ sh_state = "running"
    /\ UserDataSteps[sh_next].kind # "if"
    /\ sh_log' = Append(sh_log, [step |-> sh_next, result |-> "ok"])
    /\ Advance(sh_next)
    /\ UNCHANGED <<graphVars, policyVars, templateVars>>

\* a command returns non-zero: under errexit the shell exits, unless the
\* command is the left side of || true
StepFails ==
    /\ sh_state = "running"
    /\ UserDataSteps[sh_next].kind \in {"command", "or-true"}
    /\ sh_log' = Append(sh_log, [step |-> sh_next, result |-> "failed"])
    /\ IF ErrExit /\ UserDataSteps[sh_next].kind = "command"
          THEN sh_state' = "aborted" /\ sh_next' = sh_next
          ELSE Advance(sh_next)
    /\ UNCHANGED <<graphVars, policyVars, templateVars>>

\* the condition of the if holds: the block runs
TestHolds ==
    /\ sh_state = "running"
    /\ UserDataSteps[sh_next].kind = "if"
    /\ sh_log' = Append(sh_log, [step |-> sh_next, result |-> "true"])
    /\ Advance(sh_next)
    /\ UNCHANGED <<graphVars, policyVars, templateVars>>

\* the condition of the if does not hold: the block is skipped
TestFails ==
    /\ sh_state = "running"
    /\ UserDataSteps[sh_next].kind = "if"
    /\ sh_log' = Append(sh_log, [step |-> sh_next, result |-> "false"])
    /\ Advance(sh_next + UserDataSteps[sh_next].block)
    /\ UNCHANGED <<graphVars, policyVars, templateVars>>

(***************************************************************************)
(* The constructors, one step per statement                                *)
(***************************************************************************)

NoDependencies == [c \in ConstructIds |-> {}]
AllPending == [c \in ConstructIds |-> "pending"]
EmptyPlatform == [i \in {} |-> 0]

\* new KarpenterStack(this, 'Karpenter', ...)
NewStackStep ==
    /\ pc < Len(Program)
    /\ Program[pc + 1].op = "new"
    /\ built' = Append(built, Program[pc + 1].id)
    /\ pc' = pc + 1
    /\ UNCHANGED <<clusterName, dependsOn, status, platform, tags>>
    /\ UNCHANGED <<policyVars, templateVars, scriptVars>>

\* const m = cluster.addManifest(id, {...})
AddManifestStep ==
    /\ pc < Len(Program)
    /\ Program[pc + 1].op = "manifest"
    /\ built' = Append(built, Program[pc + 1].id)
    /\ pc' = pc + 1
    /\ UNCHANGED <<clusterName, dependsOn, status, platform, tags>>
    /\ UNCHANGED <<policyVars, templateVars, scriptVars>>

\* new KarpenterControllerPolicy(this, id, {clusterName: cluster.clusterName,
\* karpenterInterruptionQueueArn: karpenterQueue.queueArn,
\* karpenterNodeRoleArn: this.karpenterNodeRole.roleArn})
NewPolicyStep ==
    /\ pc < Len(Program)
    /\ Program[pc + 1].op = "policy"
    /\ calls' = Append(calls,
          [props |-> [clusterName |-> clusterName,
                      karpenterInterruptionQueueArn |-> QueueArn(QueueName(clusterName)),
                      karpenterNodeRoleArn |-> RoleArn(NodeRoleName(clusterName))],
           statements |-> buildControllerPolicy(clusterName,
                              QueueArn(QueueName(clusterName)),
                              RoleArn(NodeRoleName(clusterName)))])
    /\ pc' = pc + 1
    /\ UNCHANGED <<clusterName, built, dependsOn, status, platform, tags>>
    /\ UNCHANGED <<templateVars, scriptVars>>

\* tagging with the name of the demo cluster, whatever the cluster is
AddTagsStep_FixedName ==
    /\ pc < Len(Program)
    /\ Program[pc + 1].op = "tags"
    /\ tags' = [t \in Taggables |->
                  IF t \in Program[pc + 1].on
                  THEN tags[t] \cup {<<Program[pc + 1].id, "karpenter-demo">>}
                  ELSE tags[t]]
    /\ pc' = pc + 1
    /\ UNCHANGED <<clusterName, built, dependsOn, status, platform>>
    /\ UNCHANGED <<policyVars, templateVars, scriptVars>>

\* cdk.Tags.of(target).add(key, cluster.clusterName)
AddTagsStep ==
    /\ pc < Len(Program)
    /\ Program[pc + 1].op = "tags"
    /\ tags' = [t \in Taggables |->
                  IF t \in Program[pc + 1].on
                  THEN tags[t] \cup {<<Program[pc + 1].id, clusterName>>}
                  ELSE tags[t]]
    /\ pc' = pc + 1
    /\ UNCHANGED <<clusterName, built, dependsOn, status, platform>>
    /\ UNCHANGED <<policyVars, templateVars, scriptVars>>

\* addDependency recording the edge on the wrong end
AddDependencyStep_Reversed ==
    /\ pc < Len(Program)
    /\ Program[pc + 1].op = "dependency"
    /\ dependsOn' = [dependsOn EXCEPT ![Program[pc + 1].on] = @ \cup {Program[pc + 1].id}]
    /\ pc' = pc + 1
    /\ UNCHANGED <<clusterName, built, status, platform, tags>>
    /\ UNCHANGED <<policyVars, templateVars, scriptVars>>

\* m.node.addDependency(dep)
AddDependencyStep ==
    /\ pc < Len(Program)
    /\ Program[pc + 1].op = "dependency"
    /\ dependsOn' = [dependsOn EXCEPT ![Program[pc + 1].id] = @ \cup {Program[pc + 1].on}]
    /\ pc' = pc + 1
    /\ UNCHANGED <<clusterName, built, status, platform, tags>>
    /\ UNCHANGED <<policyVars, templateVars, scriptVars>>

(***************************************************************************)
(* The applier: the deployment engine that submits the built constructs    *)
(***************************************************************************)

\* an applier that waits for the dependencies' submission, not their success
Eligible_AnySubmitted(n) == \A d \in dependsOn[n] : status[d] # "pending"

\* a construct may be submitted once everything it depends on succeeded
Eligible(n) == \A d \in dependsOn[n] : status[d] = "ok"

\* creation on the cluster is idempotent: the object is stored under its
\* identity, whatever was stored there before
Created(p, body) ==
    [i \in DOMAIN p \cup {Identity(body)} |->
        IF i = Identity(body) THEN body ELSE p[i]]

SubmitOk(n) ==
    /\ Synthesized
    /\ n \in Range(built)
    /\ status[n] = "pending"
    /\ Eligible(n)
    /\ status' = [status EXCEPT ![n] = "ok"]
    /\ platform' = IF n \in ManifestIds
                      THEN Created(platform, Manifest(n, clusterName))
                      ELSE platform
    /\ UNCHANGED <<clusterName, pc, built, dependsOn, tags>>
    /\ UNCHANGED <<policyVars, templateVars, scriptVars>>

SubmitFail(n) ==
    /\ Synthesized
    /\ n \in Range(built)
    /\ status[n] = "pending"
    /\ Eligible(n)
    /\ status' = [status EXCEPT ![n] = "failed"]
    /\ UNCHANGED <<clusterName, pc, built, dependsOn, platform, tags>>
    /\ UNCHANGED <<policyVars, templateVars, scriptVars>>

(***************************************************************************)
(* The specification of the manifest graph and its application             *)
(***************************************************************************)

NoCalls == <<>>
NoVars == [v \in {} |-> ""]
NotRendered == [ok |-> FALSE, error |-> "not rendered", missing |-> {}, text |-> <<>>]

Init ==
    /\ clusterName \in ClusterNames
    /\ pc = 0
    /\ built = <<>>
    /\ dependsOn = NoDependencies
    /\ status = AllPending
    /\ platform = EmptyPlatform
    /\ calls = NoCalls
    /\ vars_in = NoVars
    /\ rendered = NotRendered
    /\ tags = NoTags
    /\ sh_next = 1
    /\ sh_state = "running"
    /\ sh_log = <<>>

Next ==
    \/ NewStackStep
    \/ NewPolicyStep
    \/ AddManifestStep
    \/ AddTagsStep
    \/ AddDependencyStep
    \/ \E n \in ConstructIds : SubmitOk(n)
    \/ \E n \in ConstructIds : SubmitFail(n)

Spec == Init /\ [][Next]_vars

\* The constructors run to their end, and the applier is weakly fair and
\* every one of its submissions succeeds.
NextSucceeding ==
    \/ NewStackStep
    \/ NewPolicyStep
    \/ AddManifestStep
    \/ AddTagsStep
    \/ AddDependencyStep
    \/ \E n \in ConstructIds : SubmitOk(n)

Construct ==
    NewStackStep \/ NewPolicyStep \/ AddManifestStep \/ AddTagsStep \/ AddDependencyStep

SpecFair ==
    /\ Init
    /\ [][NextSucceeding]_vars
    /\ WF_vars(Construct)
    /\ \A n \in ConstructIds : WF_vars(SubmitOk(n))

(***************************************************************************)
(* The specification of the policy constructor: calls with any props       *)
(***************************************************************************)

\* the number of constructor calls followed
MaxCalls == 2

\* props.clusterName: a cluster name, or nothing
ClusterIds == {"demo", ""}

\* props.karpenterInterruptionQueueArn: an ARN, a wildcard, not an ARN
QueueArnInputs ==
    { <<Lit("arn:aws:sqs:us-west-2:123:Karpenter-demo")>>,
      <<Lit("*")>>,
      <<Lit("not-an-arn")>> }

\* props.karpenterNodeRoleArn: a role ARN, the ARN of the queue (the two
\* props given the same value), the empty string
RoleArnInputs ==
    { <<Lit("arn:aws:iam::123:role/KarpenterNodeInstanceRole-demo")>>,
      <<Lit("arn:aws:sqs:us-west-2:123:Karpenter-demo")>>,
      <<Lit("")>> }

\* new KarpenterControllerPolicy(scope, id, {clusterName, queue ARN, role ARN})
NewControllerPolicy(c, q, r) ==
    /\ Len(calls) < MaxCalls
    /\ calls' = Append(calls,
                  [props |-> [clusterName |-> c,
                              karpenterInterruptionQueueArn |-> q,
                              karpenterNodeRoleArn |-> r],
                   statements |-> buildControllerPolicy(c, q, r)])
    /\ UNCHANGED <<graphVars, templateVars, scriptVars>>

InitPolicy ==
    /\ clusterName = "karpenter-demo"
    /\ pc = 0
    /\ built = <<>>
    /\ dependsOn = NoDependencies
    /\ status = AllPending
    /\ platform = EmptyPlatform
    /\ calls = NoCalls
    /\ vars_in = NoVars
    /\ rendered = NotRendered
    /\ tags = NoTags
    /\ sh_next = 1
    /\ sh_state = "running"
    /\ sh_log = <<>>

NextPolicy ==
    \E c \in ClusterIds : \E q \in QueueArnInputs : \E r \in RoleArnInputs :
        NewControllerPolicy(c, q, r)

SpecPolicy == InitPolicy /\ [][NextPolicy]_vars

(***************************************************************************)
(* Properties of the policy constructor                                    *)
(***************************************************************************)

\* the sids of the statements, in the order of the statements array
PolicySids ==
    << "AllowScopedEC2InstanceAccessActions",
       "AllowScopedEC2LaunchTemplateAccessActions",
       "AllowScopedEC2InstanceActionsWithTags",
       "AllowScopedResourceCreationTagging",
       "AllowScopedResourceTagging",
       "AllowScopedDeletion",
       "AllowRegionalReadActions",
       "AllowSSMReadActions",
       "AllowPricingReadActions",
       "AllowInterruptionQueueActions",
       "AllowPassingInstanceRole",
       "AllowScopedInstanceProfileCreationActions",
       "AllowScopedInstanceProfileTagActions",
       "AllowScopedInstanceProfileActions",
       "AllowInstanceProfileReadActions",
       "AllowAPIServerEndpointDiscovery" >>

Calls == 1..Len(calls)

Sids(statements) == [k \in 1..Len(statements) |-> statements[k].sid]

\* the statements of a policy with the given sid
WithSid(statements, sid) ==
    {k \in 1..Len(statements) : statements[k].sid = sid}

\* C6: the constructor returns the same sixteen statements, in the same
\* order of sids, for every props triple, and two calls with equal triples
\* return statement sequences that are equal element by element.
C6_FixedSizeDeterministic ==
    \A i \in Calls :
        /\ Len(calls[i].statements) = Len(PolicySids)
        /\ Sids(calls[i].statements) = PolicySids
        /\ \A j \in Calls :
              calls[i].props = calls[j].props
                 => \A k \in 1..Len(PolicySids) :
                       calls[i].statements[k] = calls[j].statements[k]

C6_Witness ==
    /\ Len(calls) = 2
    /\ calls[1].props = calls[2].props
    /\ calls[1].props.clusterName = ""

FixedPatterns(st) ==
    UNION { Range(st[k].resources) :
              k \in {n \in 1..Len(st) :
                       st[n].sid \notin {"AllowInterruptionQueueActions",
                                         "AllowPassingInstanceRole"}} }

Shape(st) ==
    [sid |-> st.sid, effect |-> st.effect, actions |-> st.actions,
     operators |-> {cd.op : cd \in st.conditions}]

Shapes(statements) == [k \in 1..Len(statements) |-> Shape(statements[k])]

\* the chunks of the resource patterns and condition values of a statement
Chunks(st) ==
    (UNION {Range(pattern) : pattern \in Range(st.resources)})
       \cup (UNION {cd.values : cd \in st.conditions})

\* the chunks that come with the props of a call
PropChunks(props) ==
    Range(props.karpenterInterruptionQueueArn) \cup Range(props.karpenterNodeRoleArn)

IsRef(chunk) == "ref" \in DOMAIN chunk

\* C8 as stated: sid, effect, actions and condition operators of every
\* statement are the same for all props, and the resource patterns and
\* condition values hold only template text and the three props: no
\* reference to any other value.
C8_OnlyTheThreeInputs ==
    \A i \in Calls :
        /\ \A j \in Calls : Shapes(calls[i].statements) = Shapes(calls[j].statements)
        /\ \A k \in 1..Len(calls[i].statements) :
              \A chunk \in Chunks(calls[i].statements[k]) :
                 IsRef(chunk) => chunk \in PropChunks(calls[i].props)

\* C8 as amended: sid, effect, actions and condition operators of every
\* statement are the same for all props, and the resource patterns and
\* condition values hold only template text, the three props and references
\* to the deployment's partition, region and account id (cdk.Aws.PARTITION,
\* cdk.Aws.REGION, cdk.Aws.ACCOUNT_ID).
C8_InputsAndPseudoParameters ==
    \A i \in Calls :
        /\ \A j \in Calls : Shapes(calls[i].statements) = Shapes(calls[j].statements)
        /\ \A k \in 1..Len(calls[i].statements) :
              \A chunk \in Chunks(calls[i].statements[k]) :
                 IsRef(chunk) => chunk \in PropChunks(calls[i].props) \cup AwsRefs

C8_Witness ==
    /\ Len(calls) = 2
    /\ calls[1].props.clusterName # calls[2].props.clusterName
    /\ calls[1].props.karpenterInterruptionQueueArn
          # calls[2].props.karpenterInterruptionQueueArn
    /\ calls[1].props.karpenterNodeRoleArn # calls[2].props.karpenterNodeRoleArn
    /\ AwsRegion \in Chunks(calls[1].statements[12])

\* C9: the constructor reports no error and validates nothing: for every
\* props triple, the empty string and strings that are no ARN included, it
\* returns all the statements, with the props substituted as they are.
C9_NoValidation ==
    \A i \in Calls :
        LET c == calls[i].props.clusterName
            q == calls[i].props.karpenterInterruptionQueueArn
            r == calls[i].props.karpenterNodeRoleArn
            st == calls[i].statements
        IN  /\ Len(st) = Len(PolicySids)
            /\ st[10].resources = <<q>>
            /\ st[11].resources = <<r>>
            /\ Cond("StringEquals", "aws:RequestTag/eks:eks-cluster-name", {Lit(c)})
                  \in st[3].conditions
            /\ Cond("StringEquals", "aws:ResourceTag/kubernetes.io/cluster/" \o c,
                    {Lit("owned")}) \in st[6].conditions
            /\ Lit(":cluster/" \o c) \in Range(st[16].resources[1])

C9_Witness ==
    \E i \in Calls :
        /\ calls[i].props.clusterName = ""
        /\ calls[i].props.karpenterInterruptionQueueArn = <<Lit("not-an-arn")>>
        /\ calls[i].props.karpenterNodeRoleArn = <<Lit("")>>
        /\ Len(calls[i].statements) = Len(PolicySids)

(***************************************************************************)
(* The specification of the template rendering: any vars mapping           *)
(***************************************************************************)

\* names a vars mapping may define: the two the template references and
\* one it does not
VarNames == {"CLUSTER_NAME", "CRUN_VERSION", "REGION"}

VarValues == {"demo", "prod", "1.8.7"}

\* the vars mappings: a value for some of the names
VarMappings == UNION {[names -> VarValues] : names \in SUBSET VarNames}

\* data.template_file.user_data.rendered
RenderUserData ==
    /\ rendered = NotRendered
    /\ rendered' = renderTemplate(NodeGroupUserData, vars_in)
    /\ UNCHANGED <<graphVars, policyVars, scriptVars, vars_in>>

InitTemplate ==
    /\ clusterName = "karpenter-demo"
    /\ pc = 0
    /\ built = <<>>
    /\ dependsOn = NoDependencies
    /\ status = AllPending
    /\ platform = EmptyPlatform
    /\ calls = NoCalls
    /\ vars_in \in VarMappings
    /\ rendered = NotRendered
    /\ tags = NoTags
    /\ sh_next = 1
    /\ sh_state = "running"
    /\ sh_log = <<>>

NextTemplate == RenderUserData

SpecTemplate == InitTemplate /\ [][NextTemplate]_vars

(***************************************************************************)
(* The specification of the user-data script's run on a node               *)
(***************************************************************************)

InitScript ==
    /\ clusterName = "karpenter-demo"
    /\ pc = 0
    /\ built = <<>>
    /\ dependsOn = NoDependencies
    /\ status = AllPending
    /\ platform = EmptyPlatform
    /\ calls = NoCalls
    /\ vars_in = NoVars
    /\ rendered = NotRendered
    /\ tags = NoTags
    /\ sh_next = 1
    /\ sh_state = "running"
    /\ sh_log = <<>>

NextScript ==
    \/ StepSucceeds
    \/ StepFails
    \/ TestHolds
    \/ TestFails

SpecScript == InitScript /\ [][NextScript]_vars

(***************************************************************************)
(* Properties of the template rendering                                    *)
(***************************************************************************)

\* the vars of data.template_file.user_data for cluster name "demo"
DemoVars == [name \in {"CLUSTER_NAME"} |-> "demo"]

\* C10: rendering the user-data template with the mapping
\* {CLUSTER_NAME -> "demo"} succeeds, and the bootstrap invocation line of
\* the output reads "/etc/eks/bootstrap.sh demo" followed by the fixed
\* arguments.
C10_RendersWithClusterName ==
    (rendered # NotRendered /\ vars_in = DemoVars)
        => /\ rendered.ok
           /\ rendered.text[BootstrapLine] = "/etc/eks/bootstrap.sh demo \\"

\* C11: a rendering fails with MissingVariable, and gives no output text,
\* whenever the template references a placeholder that has no value in the
\* variable mapping; the user-data template rendered without CLUSTER_NAME
\* fails so.
C11_MissingVariableFails ==
    rendered # NotRendered =>
        /\ (Placeholders(NodeGroupUserData) \ DOMAIN vars_in # {}
              \/ "CLUSTER_NAME" \notin DOMAIN vars_in)
             => /\ ~rendered.ok
                /\ rendered.error = "MissingVariable"
                /\ rendered.text = <<>>
        /\ rendered.ok => Placeholders(NodeGroupUserData) \subseteq DOMAIN vars_in

C11_Witness ==
    /\ rendered # NotRendered
    /\ "CLUSTER_NAME" \notin DOMAIN vars_in
    /\ "CRUN_VERSION" \in DOMAIN vars_in
    /\ rendered.error = "MissingVariable"
    /\ rendered.missing = {"CLUSTER_NAME"}

(***************************************************************************)
(* Properties of the manifest graph                                        *)
(***************************************************************************)

RECURSIVE Reach(_, _)
Reach(frontier, seen) ==
    LET next == (UNION {dependsOn[x] : x \in frontier}) \ seen
    IN  IF next = {} THEN seen ELSE Reach(next, seen \cup next)

\* the constructs reachable from n by one or more dependsOn edges
TransitiveDeps(n) == Reach({n}, {})

\* the position of a construct in the build order
Position(n) == CHOOSE i \in 1..Len(built) : built[i] = n

AllSubmittedOk == \A n \in ConstructIds : status[n] = "ok"

\* C1: the dependsOn relation over all constructs of the deployment graph is
\* acyclic: no construct is reachable from itself by one or more edges.
C1_Acyclic == \A n \in ConstructIds : n \notin TransitiveDeps(n)

C1_Witness ==
    /\ Synthesized
    /\ "KarpenterNamespace" \in TransitiveDeps("DefaultNodeClass")
    /\ KarpenterStackId \in TransitiveDeps("GitHubRunnersNodePool")

\* C2: a construct is submitted only in a state where every construct of
\* its dependsOn set has been submitted successfully; hence once a
\* submission has failed, nothing that depends on it, directly or
\* transitively, is ever submitted.
C2_SubmitAfterDependencies ==
    /\ [][\A n \in ConstructIds :
            (status[n] = "pending" /\ status'[n] # "pending")
                => \A d \in dependsOn[n] : status[d] = "ok"]_vars
    /\ [](\A n \in ConstructIds : \A m \in ConstructIds :
            (status[n] = "failed" /\ n \in TransitiveDeps(m))
                => status[m] = "pending")

C2_Witness ==
    /\ status["KarpenterController"] = "failed"
    /\ status["KarpenterServiceAccount"] = "ok"
    /\ status["KarpenterInstallJob"] = "pending"
    /\ status["DefaultNodePool"] = "pending"
    /\ status["ExampleWorkload"] = "ok"

\* C3 as stated: the direct dependsOn set of the installer job is exactly
\* the service-account node.
C3_JobDependsOnServiceAccountOnly ==
    Synthesized => dependsOn["KarpenterInstallJob"] = {"KarpenterServiceAccount"}

\* C3 as amended: for every cluster name, the direct dependsOn set of the
\* installer job is exactly the install-script config map; the service
\* account is a dependency of the job only transitively, through the
\* config map.
C3_JobDependsOnConfigMapOnly ==
    Synthesized =>
        /\ dependsOn["KarpenterInstallJob"] = {"KarpenterController"}
        /\ "KarpenterServiceAccount" \in TransitiveDeps("KarpenterInstallJob")

C3_Witness ==
    /\ Synthesized
    /\ clusterName = "demo"
    /\ "KarpenterInstallJob" \in Range(built)

\* C4: the recorded edges follow the build order namespace -> service
\* account -> config map -> installer job -> custom resources: the service
\* account depends on the namespace, the config map on the service account,
\* the job on the config map, the default NodePool and EC2NodeClass on the
\* job, and every recorded edge points from a later-built construct to an
\* earlier-built one.
C4_EdgesFollowBuildOrder ==
    /\ \A a \in ConstructIds : \A b \in dependsOn[a] :
         /\ a \in Range(built)
         /\ b \in Range(built)
         /\ Position(b) < Position(a)
    /\ Synthesized =>
         /\ "KarpenterNamespace" \in dependsOn["KarpenterServiceAccount"]
         /\ "KarpenterServiceAccount" \in dependsOn["KarpenterController"]
         /\ "KarpenterController" \in dependsOn["KarpenterInstallJob"]
         /\ "KarpenterInstallJob" \in dependsOn["DefaultNodePool"]
         /\ "KarpenterInstallJob" \in dependsOn["DefaultNodeClass"]
         /\ Position("KarpenterNamespace") < Position("KarpenterServiceAccount")
         /\ Position("KarpenterServiceAccount") < Position("KarpenterController")
         /\ Position("KarpenterController") < Position("KarpenterInstallJob")
         /\ Position("KarpenterInstallJob") < Position("DefaultNodePool")
         /\ Position("KarpenterInstallJob") < Position("DefaultNodeClass")

C4_Witness ==
    /\ Synthesized
    /\ dependsOn["DefaultNodeClass"] # {}
    /\ dependsOn["GitHubRunnersNodeClass"] # {}

\* the objects a complete, successful application leaves on the cluster
FinalPlatform ==
    LET bodies == {Manifest(m, clusterName) : m \in ManifestIds}
    IN  [i \in {Identity(b) : b \in bodies} |->
            CHOOSE b \in bodies : Identity(b) = i]

\* C5: every complete submission sequence that respects dependsOn and in
\* which every submission succeeds ends in the same platform state, whatever
\* the order or interleaving of independent constructs.
C5_SameEndState == AllSubmittedOk => platform = FinalPlatform

C5_Witness ==
    /\ AllSubmittedOk
    /\ Cardinality(DOMAIN platform) = Cardinality(ManifestIds)

(***************************************************************************)
(* Properties of the constructors' effects on the objects passed to them   *)
(***************************************************************************)

\* the manifests the constructors have added to the cluster object
ClusterManifests == Range(built) \cap ManifestIds

\* the props KarpenterStack's constructor passes to the policy constructor
KarpenterPolicyProps ==
    [clusterName |-> clusterName,
     karpenterInterruptionQueueArn |-> QueueArn(QueueName(clusterName)),
     karpenterNodeRoleArn |-> RoleArn(NodeRoleName(clusterName))]

EksCluster == "EksCluster"
MainStackId == "MainStack"

\* the construct under which a construct is created: a manifest is created
\* by cluster.addManifest, under the cluster, in whichever constructor the
\* call is written; KarpenterStack is created under MainStack
Scope(id) == IF id \in ManifestIds THEN EksCluster ELSE MainStackId

\* the constructs created under a construct
Members(c) == {n \in ConstructIds : Scope(n) = c}

\* a dependency on a construct is a dependency on it and on its members
DependencyTargets(n) == dependsOn[n] \cup UNION {Members(d) : d \in dependsOn[n]}

RECURSIVE ReachTargets(_, _)
ReachTargets(frontier, seen) ==
    LET next == (UNION {DependencyTargets(x) : x \in frontier}) \ seen
    IN  IF next = {} THEN seen ELSE ReachTargets(next, seen \cup next)

\* the constructs that must have been submitted before n
DependencyClosure(n) == ReachTargets({n}, {})

\* C15: the installer job is in the transitive dependency closure of each
\* manifest of MainStack (example workload, github-runners NodePool and
\* EC2NodeClass), and none of the three is submitted before the installer job.
C15_MainManifestsAfterInstallJob ==
    /\ Synthesized =>
          \A n \in MainManifestIds : "KarpenterInstallJob" \in DependencyClosure(n)
    /\ \A n \in MainManifestIds :
          status[n] # "pending" => status["KarpenterInstallJob"] # "pending"

\* the manifests the installer job names: its namespace, the service account
\* it runs as, the config map it mounts, and the ClusterRoleBinding of that
\* service account with the ClusterRole it binds
InstallJobNeeds ==
    LET job == Manifest("KarpenterInstallJob", clusterName)
        body(n) == Manifest(n, clusterName)
        bindings == {n \in ManifestIds :
                       /\ body(n).kind = "ClusterRoleBinding"
                       /\ body(n).spec.subjectName = job.spec.serviceAccountName
                       /\ body(n).spec.subjectNamespace = job.namespace}
    IN  {n \in ManifestIds :
           \/ body(n).kind = "Namespace" /\ body(n).name = job.namespace
           \/ /\ body(n).kind = "ServiceAccount"
              /\ body(n).name = job.spec.serviceAccountName
              /\ body(n).namespace = job.namespace
           \/ /\ body(n).kind = "ConfigMap"
              /\ body(n).name = job.spec.configMap
              /\ body(n).namespace = job.namespace
           \/ n \in bindings
           \/ /\ body(n).kind = "ClusterRole"
              /\ \E b \in bindings : body(b).spec.roleRef = body(n).name}

\* C16: the namespace, the service account, the install-script config map and
\* the installer ClusterRole and ClusterRoleBinding are all in the installer
\* job's transitive dependsOn closure, and the job is submitted only after
\* each of them was submitted successfully.
C16_InstallJobAfterItsNeeds ==
    /\ Synthesized =>
          /\ InstallJobNeeds =
                {"KarpenterNamespace", "KarpenterServiceAccount", "KarpenterController",
                 "KarpenterInstallerRole", "KarpenterInstallerRoleBinding"}
          /\ InstallJobNeeds \subseteq TransitiveDeps("KarpenterInstallJob")
    /\ status["KarpenterInstallJob"] # "pending" =>
          \A n \in InstallJobNeeds : status[n] = "ok"

\* the stack a construct belongs to: KarpenterStack is a stack of its own;
\* the manifests belong to the cluster, which MainStack creates
StackOf(n) == IF n = KarpenterStackId THEN KarpenterStackId ELSE MainStackId

\* <<X, Y>>: stack X reads a value that stack Y produces. KarpenterStack's
\* constructor reads the cluster (name, OIDC provider, endpoint) and the
\* private subnets of MainStack; MainStack's GitHubRunnersNodeClass reads
\* karpenterStack.karpenterNodeRole.roleName
StackReads ==
    (IF KarpenterStackId \in Range(built)
        THEN {<<KarpenterStackId, MainStackId>>} ELSE {})
    \cup
    (IF "GitHubRunnersNodeClass" \in Range(built)
        THEN {<<MainStackId, KarpenterStackId>>} ELSE {})

\* <<X, Y>>: a construct of stack X declares a dependency on one of stack Y
StackDeclares ==
    {pair \in {MainStackId, KarpenterStackId} \X {MainStackId, KarpenterStackId} :
        /\ pair[1] # pair[2]
        /\ \E n \in ConstructIds : \E d \in dependsOn[n] :
              StackOf(n) = pair[1] /\ StackOf(d) = pair[2]}

StackRequires == StackReads \cup StackDeclares

\* C17: between MainStack and KarpenterStack the relation 'reads a value of,
\* or declares a dependency on' has no cycle: KarpenterStack requires
\* MainStack, and MainStack requires nothing of KarpenterStack.
C17_NoCycleBetweenStacks ==
    /\ <<MainStackId, KarpenterStackId>> \notin StackRequires
    /\ ~(/\ <<MainStackId, KarpenterStackId>> \in StackRequires
         /\ <<KarpenterStackId, MainStackId>> \in StackRequires)

(***************************************************************************)
(* Properties of the policy's scoping to its cluster                       *)
(***************************************************************************)

\* A request: an action, the resource pattern the resource's ARN falls
\* under, and the request context, condition key -> values.
Request(action, resource, context) ==
    [action |-> action, resource |-> resource, context |-> context]

\* one condition of a statement against the context of a request
ConditionHolds(cond, context) ==
    CASE cond.op = "StringEquals" ->
           cond.key \in DOMAIN context /\ context[cond.key] \cap cond.values # {}
      [] cond.op = "StringLike" ->
           /\ cond.key \in DOMAIN context
           /\ Lit("*") \in cond.values \/ context[cond.key] \cap cond.values # {}
      [] cond.op = "StringEqualsIfExists" ->
           cond.key \in DOMAIN context => context[cond.key] \cap cond.values # {}
      [] cond.op = "ForAllValues:StringEquals" ->
           cond.key \in DOMAIN context => context[cond.key] \subseteq cond.values

\* a statement matches a request: it names the action, one of its resource
\* patterns covers the resource, and every one of its conditions holds
Matches(st, req) ==
    /\ req.action \in st.actions
    /\ \E k \in 1..Len(st.resources) :
          st.resources[k] = Wildcard \/ st.resources[k] = req.resource
    /\ \A cond \in st.conditions : ConditionHolds(cond, req.context)

Allowed(statements, req) ==
    \E k \in 1..Len(statements) :
        statements[k].effect = "Allow" /\ Matches(statements[k], req)

DestructiveActions ==
    {"ec2:TerminateInstances", "ec2:DeleteLaunchTemplate",
     "iam:DeleteInstanceProfile", "iam:AddRoleToInstanceProfile",
     "iam:RemoveRoleFromInstanceProfile"}

DestructibleResources ==
    {Ec2Arn(":*:instance/*"), Ec2Arn(":*:launch-template/*"), InstanceProfileArn}

\* the cluster ids that own resources in the account
OwnerClusterIds == {"demo", "prod", ""}

\* the tags Karpenter puts on what it creates, besides the cluster's own tag
KarpenterTagKeys ==
    {"aws:ResourceTag/karpenter.sh/nodepool",
     "aws:ResourceTag/karpenter.k8s.aws/ec2nodeclass",
     "aws:ResourceTag/topology.kubernetes.io/region"}

\* the context of a request on a resource that cluster b owns, carrying the
\* tags of keys
OwnedBy(b, keys) ==
    [key \in keys \cup {"aws:ResourceTag/kubernetes.io/cluster/" \o b} |->
        IF key = "aws:ResourceTag/kubernetes.io/cluster/" \o b THEN {Lit("owned")}
        ELSE IF key = "aws:ResourceTag/topology.kubernetes.io/region" THEN {AwsRegion}
        ELSE {Lit("default")}]

\* the destructive requests on the resources of the clusters other than a
CrossClusterRequests(a) ==
    {Request(action, resource, OwnedBy(b, keys)) :
        action \in DestructiveActions, resource \in DestructibleResources,
        b \in OwnerClusterIds \ {a}, keys \in SUBSET KarpenterTagKeys}

\* C18: the policy built for cluster id A has no Allow statement that matches
\* a destructive request (terminate instances, delete launch template,
\* delete instance profile, add or remove its role) on a resource tagged
\* kubernetes.io/cluster/B = owned, B different from A, and not tagged for A.
C18_NoDestructionAcrossClusters ==
    calls # <<>> =>
        LET call == calls[Len(calls)]
        IN  \A req \in CrossClusterRequests(call.props.clusterName) :
                ~Allowed(call.statements, req)

\* a policy was built for "demo"; it does not allow the termination of an
\* instance of "prod" that the policy built for "prod" allows
C18_Witness ==
    /\ calls # <<>>
    /\ calls[Len(calls)].props.clusterName = "demo"
    /\ \E req \in CrossClusterRequests("demo") :
          /\ req.action = "ec2:TerminateInstances"
          /\ ~Allowed(calls[Len(calls)].statements, req)
          /\ Allowed(buildControllerPolicy("prod",
                        calls[Len(calls)].props.karpenterInterruptionQueueArn,
                        calls[Len(calls)].props.karpenterNodeRoleArn), req)

(***************************************************************************)
(* Properties of the user-data script's run                                *)
(***************************************************************************)

\* the entries of the log that ran the bootstrap invocation
BootstrapRuns ==
    {i \in 1..Len(sh_log) : UserDataSteps[sh_log[i].step].cmd = "/etc/eks/bootstrap.sh"}

\* C19: the bootstrap invocation is the last step of the user-data script;
\* a step that fails aborts the script unless it is the enable-linger step,
\* so the bootstrap invocation runs only after every step before it, except
\* possibly enable-linger, succeeded, and nothing runs after it.
C19_BootstrapLastAfterSuccess ==
    /\ \A k \in 1..Len(UserDataSteps) :
          /\ UserDataSteps[k].cmd = "/etc/eks/bootstrap.sh" <=> k = Len(UserDataSteps)
          /\ UserDataSteps[k].kind = "or-true"
                => UserDataSteps[k].cmd = "loginctl enable-linger ec2-user"
    /\ \A i \in 1..Len(sh_log) :
          (sh_log[i].result = "failed"
             /\ UserDataSteps[sh_log[i].step].cmd # "loginctl enable-linger ec2-user")
          => (i = Len(sh_log) /\ sh_state = "aborted")
    /\ \A i \in BootstrapRuns :
          /\ i = Len(sh_log)
          /\ sh_state # "running"
          /\ \A j \in 1..(i - 1) :
                sh_log[j].result = "failed"
                  => UserDataSteps[sh_log[j].step].cmd = "loginctl enable-linger ec2-user"

\* enable-linger failed, the script went on, and the bootstrap invocation
\* ran last
C19_Witness ==
    /\ sh_state = "done"
    /\ BootstrapRuns = {Len(sh_log)}
    /\ sh_log[Len(sh_log)].result = "ok"
    /\ \E j \in 1..Len(sh_log) :
          /\ sh_log[j].result = "failed"
          /\ UserDataSteps[sh_log[j].step].cmd = "loginctl enable-linger ec2-user"

(***************************************************************************)
(* Properties of the discovery tag                                         *)
(***************************************************************************)

\* the manifests of kind EC2NodeClass
NodeClassIds ==
    {n \in ManifestIds : Manifest(n, clusterName).kind = "EC2NodeClass"}

\* C20: once the stacks are built, every private subnet and the Karpenter
\* node security group carry the tag that the subnet selector and the
\* security-group selector of every EC2NodeClass select on, and that tag is
\* karpenter.sh/discovery = cluster name, for every cluster name.
C20_DiscoveryTagConsistent ==
    Synthesized =>
        /\ NodeClassIds = {"DefaultNodeClass", "GitHubRunnersNodeClass"}
        /\ \A n \in NodeClassIds :
              LET spec == Manifest(n, clusterName).spec
              IN  /\ spec.subnetSelector = <<"karpenter.sh/discovery", clusterName>>
                  /\ spec.securityGroupSelector = <<"karpenter.sh/discovery", clusterName>>
                  /\ \A s \in PrivateSubnets : tags[s] = {spec.subnetSelector}
                  /\ tags[KarpenterNodeSecurityGroup] = {spec.securityGroupSelector}

\* both node classes are on a cluster that is not the demo cluster, and the
\* subnets and the security group are tagged
C20_Witness ==
    /\ Synthesized
    /\ clusterName = "prod"
    /\ \A n \in NodeClassIds : status[n] = "ok"
    /\ \A s \in PrivateSubnets : <<"karpenter.sh/discovery", "prod">> \in tags[s]
    /\ <<"karpenter.sh/discovery", "prod">> \in tags[KarpenterNodeSecurityGroup]

(***************************************************************************)
(* Properties of the fair applier                                          *)
(***************************************************************************)

\* C21: under a weakly fair applier whose submissions all succeed, every
\* construct of the built graph is eventually submitted; a construct once
\* submitted is not submitted again; and while constructs remain
\* unsubmitted after the build, one of them is eligible.
C21_AllEventuallySubmittedOnce ==
    /\ <>(\A n \in ConstructIds : status[n] = "ok")
    /\ [][\A n \in ConstructIds : status[n] # "pending" => status'[n] = status[n]]_vars
    /\ []((Synthesized /\ \E n \in ConstructIds : status[n] = "pending")
            => \E n \in ConstructIds : status[n] = "pending" /\ Eligible(n))

\* the last construct has just been submitted: every construct is submitted
\* and every manifest is on the cluster
C21_Witness ==
    /\ Synthesized
    /\ \A n \in Range(built) : status[n] = "ok"
    /\ Range(built) = ConstructIds
    /\ \A n \in ManifestIds : Identity(Manifest(n, clusterName)) \in DOMAIN platform

(***************************************************************************)
(* Properties of the installer: install.sh and the job that runs it        *)
(***************************************************************************)

\* a command of install.sh: its line in karpenter-stack.ts, the command and
\* the environment variables it reads
Sh(line, cmd, reads) == [line |-> line, cmd |-> cmd, reads |-> reads]

\* a script that takes the region from AWS_REGION
KubeconfigStep_AwsRegion ==
    Sh(156, "aws eks update-kubeconfig", {"AWS_REGION", "CLUSTER_NAME"})

\* aws eks update-kubeconfig --region $AWS_DEFAULT_REGION --name $CLUSTER_NAME
KubeconfigStep ==
    Sh(156, "aws eks update-kubeconfig", {"AWS_DEFAULT_REGION", "CLUSTER_NAME"})

\* helm upgrade --install karpenter ... --set settings.clusterName=$CLUSTER_NAME
\* --set settings.clusterEndpoint=$CLUSTER_ENDPOINT
\* --set settings.interruptionQueue=$INTERRUPTION_QUEUE ... --wait
HelmStep ==
    [line |-> 162, cmd |-> "helm upgrade --install karpenter",
     reads |-> {"CLUSTER_NAME", "CLUSTER_ENDPOINT", "INTERRUPTION_QUEUE"},
     namespace |-> "karpenter",
     serviceAccountCreate |-> FALSE,
     serviceAccountName |-> "karpenter"]

\* install.sh, the data of the install-script config map
InstallScript ==
    << Sh(137, "set -e", {}),
       Sh(139, "echo Installing Karpenter 1.6.1", {}),
       Sh(142, "yum update -y", {}),
       Sh(143, "yum install -y curl tar gzip", {}),
       Sh(146, "curl -LO kubectl", {}),
       Sh(147, "chmod +x kubectl", {}),
       Sh(148, "mv kubectl /usr/local/bin/", {}),
       Sh(151, "curl -fsSL -o get_helm.sh", {}),
       Sh(152, "chmod 700 get_helm.sh", {}),
       Sh(153, "./get_helm.sh", {}),
       KubeconfigStep,
       Sh(159, "aws ecr-public get-login-password | helm registry login", {}),
       HelmStep,
       Sh(184, "echo Karpenter installation completed successfully!", {}),
       Sh(187, "kubectl get pods -n karpenter", {}),
       Sh(188, "kubectl get deployment -n karpenter", {}) >>

\* the environment variables install.sh reads
InstallScriptReads == UNION {InstallScript[k].reads : k \in 1..Len(InstallScript)}

\* the installer jobs on the cluster whose script, the install-script config
\* map, is on the cluster too
InstallerJobs ==
    {i \in DOMAIN platform :
        /\ platform[i].kind = "Job"
        /\ <<"ConfigMap", platform[i].namespace, platform[i].spec.configMap>>
              \in DOMAIN platform}

\* C22: every environment variable that install.sh reads (AWS_DEFAULT_REGION,
\* CLUSTER_NAME, CLUSTER_ENDPOINT, INTERRUPTION_QUEUE) is defined in the env
\* of the installer job that runs the script.
C22_InstallScriptEnvDefined ==
    /\ InstallScriptReads =
          {"AWS_DEFAULT_REGION", "CLUSTER_NAME", "CLUSTER_ENDPOINT", "INTERRUPTION_QUEUE"}
    /\ \A i \in InstallerJobs : InstallScriptReads \subseteq DOMAIN platform[i].spec.env

\* the installer job is on the cluster with its script
C22_Witness ==
    /\ InstallerJobs # {}
    /\ status["KarpenterInstallJob"] = "ok"
    /\ status["KarpenterController"] = "ok"

(***************************************************************************)
(* Properties of the resources of KarpenterStack                           *)
(***************************************************************************)

\* new sqs.Queue(this, 'KarpenterQueue', {queueName: `Karpenter-${clusterName}`})
KarpenterQueue(cn) ==
    [queueName |-> QueueName(cn), queueArn |-> QueueArn(QueueName(cn))]

EventRules == {"SpotInterruptionRule", "ScheduledChangeRule", "InstanceStateChangeRule"}

\* a stack that leaves the instance state change rule without its target
EventRuleTargets_StateChangeUntargeted(cn) ==
    [rule \in EventRules |->
        IF rule = "InstanceStateChangeRule" THEN {} ELSE {KarpenterQueue(cn).queueArn}]

\* rule.addTarget(new targets.SqsQueue(karpenterQueue)), for the three rules
EventRuleTargets(cn) == [rule \in EventRules |-> {KarpenterQueue(cn).queueArn}]

\* the installer jobs on the cluster
JobsOnCluster == {i \in DOMAIN platform : platform[i].kind = "Job"}

\* C23: the queue whose ARN is the only resource of the policy's
\* AllowInterruptionQueueActions statement is the one queue that each of the
\* three event rules targets, and its name is the INTERRUPTION_QUEUE of the
\* installer job.
C23_OneInterruptionQueue ==
    LET queue == KarpenterQueue(clusterName)
    IN  /\ \A i \in Calls :
              /\ WithSid(calls[i].statements, "AllowInterruptionQueueActions") # {}
              /\ \A k \in WithSid(calls[i].statements, "AllowInterruptionQueueActions") :
                    calls[i].statements[k].resources = <<queue.queueArn>>
        /\ KarpenterStackId \in Range(built) =>
              \A rule \in EventRules : EventRuleTargets(clusterName)[rule] = {queue.queueArn}
        /\ \A j \in JobsOnCluster :
              /\ platform[j].spec.env.INTERRUPTION_QUEUE = queue.queueName
              /\ QueueArn(platform[j].spec.env.INTERRUPTION_QUEUE) = queue.queueArn

\* the policy is built and the installer job is on the cluster of "demo"
C23_Witness ==
    /\ clusterName = "demo"
    /\ Len(calls) = 1
    /\ JobsOnCluster # {}
    /\ \A j \in JobsOnCluster : platform[j].spec.env.INTERRUPTION_QUEUE = "Karpenter-demo"

\* a trust condition that names the service account of another namespace
ControllerTrustSubject_KubeSystem ==
    <<"system", "serviceaccount", "kube-system", "karpenter">>

\* the :sub of the controller role's trust condition,
\* 'system:serviceaccount:karpenter:karpenter', field by field
ControllerTrustSubject == <<"system", "serviceaccount", "karpenter", "karpenter">>

\* new iam.Role(this, 'KarpenterControllerRole', {...})
KarpenterControllerRole(cn) ==
    [roleName |-> ControllerRoleName(cn),
     roleArn |-> RoleArn(ControllerRoleName(cn)),
     trustSubject |-> ControllerTrustSubject]

\* the service accounts on the cluster annotated with the controller role
AnnotatedServiceAccounts ==
    {i \in DOMAIN platform :
        /\ platform[i].kind = "ServiceAccount"
        /\ platform[i].spec.roleArn = KarpenterControllerRole(clusterName).roleArn}

\* C24: the namespace and name in the subject of the controller role's trust
\* condition are the namespace and name of the ServiceAccount annotated with
\* the role's ARN, of the service account the installer job runs as, and of
\* the service account the Helm install is given.
C24_TrustedIdentityIsWorkloadIdentity ==
    LET subject == KarpenterControllerRole(clusterName).trustSubject
    IN  /\ subject[1] = "system" /\ subject[2] = "serviceaccount"
        /\ status["KarpenterServiceAccount"] = "ok" => AnnotatedServiceAccounts # {}
        /\ \A i \in AnnotatedServiceAccounts :
              platform[i].namespace = subject[3] /\ platform[i].name = subject[4]
        /\ \A j \in JobsOnCluster :
              /\ platform[j].namespace = subject[3]
              /\ platform[j].spec.serviceAccountName = subject[4]
        /\ HelmStep.namespace = subject[3]
        /\ HelmStep.serviceAccountName = subject[4]
        /\ ~HelmStep.serviceAccountCreate

\* the annotated service account and the job that runs as it are on the
\* cluster
C24_Witness ==
    /\ AnnotatedServiceAccounts # {}
    /\ JobsOnCluster # {}
    /\ \A j \in JobsOnCluster : platform[j].spec.serviceAccountName = "karpenter"

\* new iam.Role(this, 'KarpenterNodeRole', {...})
KarpenterNodeRole(cn) ==
    [roleName |-> NodeRoleName(cn), roleArn |-> RoleArn(NodeRoleName(cn))]

\* an instance profile that holds the controller role
KarpenterNodeInstanceProfile_ControllerRole(cn) ==
    [instanceProfileName |-> "KarpenterNodeInstanceProfile-" \o cn,
     roles |-> <<KarpenterControllerRole(cn).roleName>>]

\* new iam.CfnInstanceProfile(this, 'KarpenterNodeInstanceProfile', {...})
KarpenterNodeInstanceProfile(cn) ==
    [instanceProfileName |-> "KarpenterNodeInstanceProfile-" \o cn,
     roles |-> <<KarpenterNodeRole(cn).roleName>>]

\* the roles a policy allows to be passed: the resources of its statements
\* that name iam:PassRole
PassableRoles(statements) ==
    UNION {Range(statements[k].resources) :
              k \in {m \in 1..Len(statements) : "iam:PassRole" \in statements[m].actions}}

\* the EC2NodeClass objects on the cluster
NodeClassesOnCluster == {i \in DOMAIN platform : platform[i].kind = "EC2NodeClass"}

\* C25: the only role the controller policy allows to be passed is the
\* Karpenter node role; the node instance profile contains that role and no
\* other; and every EC2NodeClass names that role, so none names a role the
\* controller may not pass.
C25_PassedRoleIsNodeRole ==
    LET role == KarpenterNodeRole(clusterName)
    IN  /\ \A i \in Calls :
              /\ PassableRoles(calls[i].statements) = {role.roleArn}
              /\ \A k \in 1..Len(calls[i].statements) :
                    "iam:PassRole" \in calls[i].statements[k].actions
                        <=> calls[i].statements[k].sid = "AllowPassingInstanceRole"
        /\ KarpenterStackId \in Range(built) =>
              KarpenterNodeInstanceProfile(clusterName).roles = <<role.roleName>>
        /\ \A n \in NodeClassesOnCluster :
              /\ platform[n].spec.role = role.roleName
              /\ \A i \in Calls :
                    RoleArn(platform[n].spec.role) \in PassableRoles(calls[i].statements)

\* the policy is built and both node classes are on the cluster
C25_Witness ==
    /\ Len(calls) = 1
    /\ Cardinality(NodeClassesOnCluster) = 2
    /\ \A n \in NodeClassesOnCluster :
          platform[n].spec.role = "KarpenterNodeInstanceRole-" \o clusterName

====
